---- MODULE Spec2Model ----
(***************************************************************************)
(* State-machine model of the SAM 2 video annotation service:              *)
(*   - SAM2VideoPredictor (sam-service/core/sam2_video_predictor.py):      *)
(*     the session table, the per-session tracked objects and masks, and   *)
(*     mask propagation;                                                   *)
(*   - InMemoryJobManager (sam-service/core/job_manager.py): the job       *)
(*     table, the submitting threads and the executor's workers.           *)
(* A mask is one row of frame_width pixels.  Time is an integer clock.     *)
(***************************************************************************)
EXTENDS Integers, Sequences, FiniteSets, TLC

VARIABLES
    now,          \* time.time() / datetime.now()
    predictor,    \* TRUE iff self.predictor is not None (the model is loaded)
    sessions,     \* keys of self.sessions
    store,        \* the VideoSession objects alive: in self.sessions, or still
                  \* referenced by a running propagate_masks call
    dirs,         \* scratch directories that exist on disk
    nextSid,      \* next fresh uuid4 for a session
    prop,         \* the thread running propagate_masks
    ret,          \* outcome of the last predictor call
    seeds,        \* history: <<session, object, frame>> -> the mask a successful
                  \* update_mask or refine_mask stored there, while it stands
    jobs,         \* InMemoryJobManager.jobs
    nextJid,      \* next fresh uuid4 for a job
    submitting,   \* threads inside submit_job: job id -> position
    queue,        \* the executor's work queue
    worker,       \* the executor's worker threads
    executed      \* job ids whose _execute_job call has returned

predVars == <<predictor, sessions, store, dirs, nextSid, prop, ret, seeds>>
jobVars  == <<jobs, nextJid, submitting, queue, worker, executed>>
vars     == <<now, predictor, sessions, store, dirs, nextSid, prop, ret, seeds,
              jobs, nextJid, submitting, queue, worker, executed>>

---------------------------------------------------------------------------
(* Program constants *)

max_concurrent_sessions == 2
max_video_frames == 300
touch_every == 10
max_workers == 2

(* Bounds of the model *)

\* session_timeout, in clock ticks
session_timeout == 2
\* the clock stops here
MaxTime == 4
\* sessions ever opened in one run
MaxOpens == 3
\* working frame width in pixels (the height is one row)
frame_width == 1

---------------------------------------------------------------------------
(* Values *)

Min(a, b) == IF a <= b THEN a ELSE b
Max(a, b) == IF a >= b THEN a ELSE b
Abs(a) == IF a < 0 THEN 0 - a ELSE a

NoMask == <<>>

\* session.inference_state is None
NoState == [ready |-> FALSE, obj_ids |-> {}, cond |-> <<>>]

\* predictor.init_state(video_path=frames_dir): a prepared, empty state
init_state == [ready |-> TRUE, obj_ids |-> {}, cond |-> <<>>]

\* predictor.reset_state(inference_state): forgets every object and input
reset_state(st) == [st EXCEPT !.obj_ids = {}, !.cond = <<>>]

NoRet == [op |-> "none", sid |-> 0, status |-> "ok", why |-> "", n |-> 0,
          mask |-> NoMask, cleaned |-> 0]

Ret(op, sid, status, why, n) ==
    [op |-> op, sid |-> sid, status |-> status, why |-> why, n |-> n,
     mask |-> NoMask, cleaned |-> 0]

IdleProp == [pc |-> "idle", sid |-> 0, frame_count |-> 0, idx |-> 0]

IdleWorker == [pc |-> "idle", jid |-> 0]

\* the VideoSession objects the propagation thread holds a reference to
Referenced == IF prop.pc = "idle" THEN {} ELSE {prop.sid}

---------------------------------------------------------------------------
(* Session management *)

\* VideoSession.idle_time
idle_time(s) == now - store[s].last_accessed

\* a sweep that also takes the sessions idle for exactly the timeout
ExpiredAtTimeout == {s \in sessions : idle_time(s) >= session_timeout}

\* cleanup_expired_sessions: the list `expired`
Expired == {s \in sessions : idle_time(s) > session_timeout}

\* close_session on every id of S: reset_state, VideoSession.cleanup, del
StoreAfterClose(S) ==
    [s \in (DOMAIN store \ S) \cup (S \cap Referenced) |->
        IF s \in S
        THEN IF store[s].inference_state.ready /\ predictor
             THEN [store[s] EXCEPT !.inference_state = reset_state(@)]
             ELSE store[s]
        ELSE store[s]]

\* a cleanup that leaves the scratch directories on disk
DirsKept(S) == dirs

\* VideoSession.cleanup: rmtree of frames_dir, for every session of S
DirsAfterClose(S) == dirs \ {store[s].frames_dir : s \in S \cap sessions}

\* history kept for the sessions that stay open
SeedsAfterClose(S) == [k \in {x \in DOMAIN seeds : x[1] \notin S} |-> seeds[k]]

\* the loop over cap.read() in _load_video_frames: it breaks at the first
\* frame_count at which no frame is left to decode (not ret) or at which
\* frame_count >= self.max_video_frames
ReadFrames(nframes) ==
    LET breaks == {k \in 0 .. nframes :
                      k = nframes \/ k >= max_video_frames}
    IN  CHOOSE k \in breaks : \A j \in breaks : k <= j

\* a load that keeps every decodable frame
LoadedWholeVideo(nframes) == nframes

\* _load_video_frames: the number of frames kept, len(frames)
LoadedFrames(nframes) == ReadFrames(nframes)

\* _extract_frames_to_dir: the files written, frame i as "%06d.jpg" % i
ExtractedFiles(nloaded) == {i : i \in 0 .. nloaded - 1}

VideoSession(sid, total, state) ==
    [total_frames |-> total, frames_dir |-> sid, objects |-> <<>>,
     inference_state |-> state, created_at |-> now, last_accessed |-> now]

\* a limit test that lets one session too many in
AtLimitOffByOne(n) == n > max_concurrent_sessions

\* len(self.sessions) >= self.max_concurrent_sessions
AtLimit(n) == n >= max_concurrent_sessions

\* an Open that never sweeps
NothingSweptOnOpen == {}

\* the sessions create_session closes before it admits: the expired ones,
\* when the table is at its limit
SweptOnOpen == IF AtLimit(Cardinality(sessions)) THEN Expired ELSE {}

\* the outcome of create_session; `cleaned` is the count it logs
RetOpen(sid, status, why, n, cleaned) ==
    [Ret("create_session", sid, status, why, n) EXCEPT
        !.cleaned = Cardinality(cleaned)]

create_session(v) ==
    /\ nextSid <= MaxOpens
    /\ LET atLimit == AtLimit(Cardinality(sessions))
           cleaned == SweptOnOpen
           ss1 == sessions \ cleaned
           st1 == StoreAfterClose(cleaned)
           ds1 == DirsAfterClose(cleaned)
           sid == nextSid
       IN
       /\ IF atLimit /\ AtLimit(Cardinality(ss1))
           THEN /\ sessions' = ss1 /\ store' = st1 /\ dirs' = ds1
                /\ ret' = RetOpen(0, "RuntimeError", "MaxSessions",
                                  max_concurrent_sessions, cleaned)
                /\ UNCHANGED nextSid
           ELSE IF ~v.readable
           THEN /\ sessions' = ss1 /\ store' = st1 /\ dirs' = ds1
                /\ nextSid' = nextSid + 1
                /\ ret' = RetOpen(0, "ValueError", "VideoUnreadable", 0, cleaned)
           ELSE IF predictor /\ v.init_fails
           THEN \* init_state raises after the frames were extracted
                /\ sessions' = ss1 /\ store' = st1
                /\ dirs' = ds1 \cup {sid}
                /\ nextSid' = nextSid + 1
                /\ ret' = RetOpen(0, "Exception", "SegmenterFailed", 0, cleaned)
           ELSE /\ sessions' = ss1 \cup {sid}
                /\ store' = (sid :> VideoSession(sid, LoadedFrames(v.nframes),
                                 IF predictor THEN init_state ELSE NoState))
                            @@ st1
                /\ dirs' = ds1 \cup {sid}
                /\ nextSid' = nextSid + 1
                /\ ret' = RetOpen(sid, "ok", "", LoadedFrames(v.nframes), cleaned)
       /\ seeds' = SeedsAfterClose(cleaned)
    /\ UNCHANGED <<now, predictor, prop>>
    /\ UNCHANGED jobVars

\* a refresh that stamps every session of the table
TouchedAll(st, sid) == [s \in DOMAIN st |-> [st[s] EXCEPT !.last_accessed = now]]

\* get_session: update_access_time on a hit
Touched(st, sid) == [st EXCEPT ![sid].last_accessed = now]

get_session(sid) ==
    /\ IF sid \in sessions
       THEN /\ store' = Touched(store, sid)
            /\ ret' = Ret("get_session", sid, "ok", "", 0)
       ELSE /\ UNCHANGED store
            /\ ret' = Ret("get_session", sid, "ok", "None", 0)
    /\ UNCHANGED <<now, predictor, sessions, dirs, nextSid, prop, seeds>>
    /\ UNCHANGED jobVars

close_session(sid) ==
    /\ IF sid \in sessions
       THEN /\ sessions' = sessions \ {sid}
            /\ store' = StoreAfterClose({sid})
            /\ dirs' = DirsAfterClose({sid})
       ELSE UNCHANGED <<sessions, store, dirs>>
    /\ seeds' = SeedsAfterClose({sid})
    /\ ret' = Ret("close_session", sid, "ok", "", 0)
    /\ UNCHANGED <<now, predictor, nextSid, prop>>
    /\ UNCHANGED jobVars

\* the Close-session request handler: get_session, 404 when there is no such
\* session, close_session otherwise
close_session_handler(sid) ==
    /\ IF sid \in sessions
       THEN /\ sessions' = sessions \ {sid}
            /\ store' = StoreAfterClose({sid})
            /\ dirs' = DirsAfterClose({sid})
            /\ seeds' = SeedsAfterClose({sid})
            /\ ret' = Ret("close_session_handler", sid, "ok", "", 0)
       ELSE /\ UNCHANGED <<sessions, store, dirs, seeds>>
            /\ ret' = Ret("close_session_handler", sid, "HTTP404",
                          "SessionNotFound", 0)
    /\ UNCHANGED <<now, predictor, nextSid, prop>>
    /\ UNCHANGED jobVars

cleanup_expired_sessions ==
    /\ sessions' = sessions \ Expired
    /\ store' = StoreAfterClose(Expired)
    /\ dirs' = DirsAfterClose(Expired)
    /\ seeds' = SeedsAfterClose(Expired)
    /\ ret' = Ret("cleanup_expired_sessions", 0, "ok", "", Cardinality(Expired))
    /\ UNCHANGED <<now, predictor, nextSid, prop>>
    /\ UNCHANGED jobVars

\* SAM2VideoPredictor.initialize: the model loads (or the service stays in
\* simulation mode when it never does)
initialize ==
    /\ ~predictor
    /\ predictor' = TRUE
    /\ ret' = Ret("initialize", 0, "ok", "", 0)
    /\ UNCHANGED <<now, sessions, store, dirs, nextSid, prop, seeds>>
    /\ UNCHANGED jobVars

\* the clock advances
Tick ==
    /\ now < MaxTime
    /\ now' = now + 1
    /\ UNCHANGED predVars
    /\ UNCHANGED jobVars

---------------------------------------------------------------------------
(* Masks *)

Pixels == 1 .. frame_width

\* np.zeros((frame_height, frame_width), dtype=np.uint8)
ZeroMask == [i \in Pixels |-> 0]

\* cv2.circle(mask, (x, y), radius, val, -1) on a mask of one row
Circle(mask, x, y, radius, val) ==
    [i \in DOMAIN mask |->
        IF (i - 1 - x) * (i - 1 - x) + y * y <= radius * radius
        THEN val ELSE mask[i]]

\* for point, label in zip(points, labels): draw 1 for label 1, else 0
RECURSIVE DrawPoints(_, _, _, _, _)
DrawPoints(mask, points, labels, i, radius) ==
    IF i > Min(Len(points), Len(labels)) THEN mask
    ELSE DrawPoints(Circle(mask, points[i][1], points[i][2], radius,
                           IF labels[i] = 1 THEN 1 ELSE 0),
                    points, labels, i + 1, radius)

simulate_mask(points, labels) ==
    DrawPoints(ZeroMask, points, labels, 1, Min(1, frame_width) \div 10)

\* cv2.rectangle(mask, (x1, y1), (x2, y2), 1, -1)
simulate_box_mask(box) ==
    [i \in Pixels |->
        IF /\ Min(box[1], box[3]) <= i - 1 /\ i - 1 <= Max(box[1], box[3])
           /\ Min(box[2], box[4]) <= 0 /\ 0 <= Max(box[2], box[4])
        THEN 1 ELSE 0]

apply_refinement_simulation(mask, points, labels) ==
    DrawPoints(mask, points, labels, 1, Min(1, Len(mask)) \div 15)

\* cv2.warpAffine(base_mask, [[1, 0, shift], [0, 1, 0]], (width, height))
WarpShift(mask, shift) ==
    [i \in Pixels |-> IF (i - shift) \in DOMAIN mask THEN mask[i - shift] ELSE 0]

\* a search that prefers an annotated frame other than frame_idx itself
NearestOtherFrame(order, frame_idx) ==
    LET others == SelectSeq(order, LAMBDA g : g # frame_idx)
        from == IF others = <<>> THEN order ELSE others
        best == CHOOSE i \in 1 .. Len(from) :
                   /\ \A j \in 1 .. Len(from) :
                         Abs(from[i] - frame_idx) <= Abs(from[j] - frame_idx)
                   /\ \A j \in 1 .. (i - 1) :
                         Abs(from[j] - frame_idx) > Abs(from[i] - frame_idx)
    IN  from[best]

\* min(annotated_frames, key=lambda f: abs(f - frame_idx)): the first key,
\* in the dict's insertion order, at the least distance
NearestFrame(order, frame_idx) ==
    LET best == CHOOSE i \in 1 .. Len(order) :
                   /\ \A j \in 1 .. Len(order) :
                         Abs(order[i] - frame_idx) <= Abs(order[j] - frame_idx)
                   /\ \A j \in 1 .. (i - 1) :
                         Abs(order[j] - frame_idx) > Abs(order[i] - frame_idx)
    IN  order[best]

\* update_mask: first channel, dtype conversion, resize, threshold at 128.
\* The resize is exact for the inputs used here: already frame_width wide,
\* or a single pixel (a constant image resizes to the same constant).
NormalizeMask(m) ==
    LET conv == IF m.dtype # "uint8"
                THEN [i \in DOMAIN m.px |-> (m.px[i] * 255) % 256]
                ELSE m.px
        sized == IF Len(conv) # frame_width
                 THEN [i \in Pixels |-> conv[1]]
                 ELSE conv
    IN  [i \in Pixels |-> IF sized[i] > 128 THEN 255 ELSE 0]

\* mask_bool = mask > 128, as the Segmenter's 0/1 mask
MaskBool(mask) == [i \in DOMAIN mask |-> IF mask[i] > 128 THEN 1 ELSE 0]

\* schemas.encode_mask, as the pixel values of the PNG it writes.  An empty
\* array becomes a zero mask; a mask that is not uint8 is clipped to
\* [0, 255], multiplied by 255 and cast to uint8; a uint8 mask is written as
\* it is.
encode_mask(m) ==
    LET sized == IF Len(m.px) = 0 THEN ZeroMask ELSE m.px
        clipped == [i \in DOMAIN sized |-> Max(0, Min(255, sized[i]))]
    IN  IF m.dtype # "uint8"
        THEN [i \in DOMAIN sized |-> (clipped[i] * 255) % 256]
        ELSE sized

\* the masks the predictor stores and returns are uint8 arrays
Uint8(mask) == [dtype |-> "uint8", px |-> mask]

---------------------------------------------------------------------------
(* Tracked objects *)

TrackedObject(oid, prompt) ==
    [object_id |-> oid, prompts |-> <<prompt>>, masks |-> <<>>,
     mask_order |-> <<>>]

\* a store that forgets the masks of the other frames
SetMaskOnly(o, f, m) == [o EXCEPT !.masks = (f :> m), !.mask_order = <<f>>]

\* obj.masks[f] = m; mask_order is the dict's key order
SetMask(o, f, m) ==
    [o EXCEPT !.masks = (f :> m) @@ @,
              !.mask_order = IF f \in DOMAIN o.masks THEN @ ELSE Append(@, f)]

PointPrompt(f, points, labels, type) ==
    [frame_idx |-> f, type |-> type, points |-> points, labels |-> labels,
     box |-> <<>>]

BoxPrompt(f, box) ==
    [frame_idx |-> f, type |-> "initial_box", points |-> <<>>,
     labels |-> <<>>, box |-> box]

\* the outcome of a call that returns a mask (or a map of masks)
RetObj(op, sid, status, why, mask) ==
    [op |-> op, sid |-> sid, status |-> status, why |-> why, n |-> 0,
     mask |-> mask, cleaned |-> 0]

\* self.predictor is not None and session.inference_state is not None
ModelPath(sid) == predictor /\ store[sid].inference_state.ready

\* a range test that lets frame_idx = total_frames through
InvalidFrameAboveOnly(sid, f) == f < 0 \/ f > store[sid].total_frames

\* frame_idx < 0 or frame_idx >= session.total_frames
InvalidFrame(sid, f) == f < 0 \/ f >= store[sid].total_frames

(* The Segmenter (self.predictor) *)

\* masks the Segmenter may return: (logits > 0) as uint8
SegMasks == {[i \in Pixels |-> IF i = 1 THEN 1 ELSE 0], [i \in Pixels |-> IF i = 1 THEN 0 ELSE 1]}

\* outcomes of a Segmenter call: it returns, it raises leaving its state
\* as it was, or it raises after registering the object id
SegOutcomes == {"ok", "raise", "raise_registered"}

\* add_new_points_or_box / add_new_mask returned: the object is registered
\* and its output on this frame is kept as a conditioning output
SegAdded(st, oid, f, m) ==
    [st EXCEPT !.obj_ids = @ \cup {oid}, !.cond = (<<oid, f>> :> m) @@ @]

SegRaised(st, oid, outcome) ==
    IF outcome = "raise_registered"
    THEN [st EXCEPT !.obj_ids = @ \cup {oid}]
    ELSE st

\* propagate_in_video: the masks one streamed frame may carry
StreamedMasks(st, f) ==
    {ms \in [st.obj_ids -> SegMasks] :
        \A o \in st.obj_ids :
            <<o, f>> \in DOMAIN st.cond => ms[o] = st.cond[<<o, f>>]}

---------------------------------------------------------------------------
(* Object tracking *)

\* an add that files the initial mask under frame 0 whatever frame_idx is
NewTrackedAtFrameZero(oid, prompt, f, mask) ==
    SetMask(TrackedObject(oid, prompt), 0, mask)

\* the TrackedObject add_object builds: the initial prompt record, and the
\* initial mask stored at frame_idx
NewTracked(oid, prompt, f, mask) == SetMask(TrackedObject(oid, prompt), f, mask)

\* history: a replaced object keeps none of its edits
SeedsWithoutObject(sid, oid) ==
    [k \in {x \in DOMAIN seeds : ~(x[1] = sid /\ x[2] = oid)} |-> seeds[k]]

\* history: the mask an edit stored at (oid, f)
SeedsWith(sid, oid, f, mask) == (<<sid, oid, f>> :> mask) @@ seeds

\* history: the edit at (oid, f) no longer stands
SeedsWithout(sid, oid, f) ==
    [k \in DOMAIN seeds \ {<<sid, oid, f>>} |-> seeds[k]]

\* the body shared by add_object and add_object_with_box
AddTracked(op, sid, f, oid, prompt, simMask, outcome, segMask) ==
    IF sid \notin sessions
    THEN /\ ret' = RetObj(op, sid, "ValueError", "SessionNotFound", NoMask)
         /\ UNCHANGED <<store, seeds>>
    ELSE IF InvalidFrame(sid, f)
    THEN /\ ret' = RetObj(op, sid, "ValueError", "InvalidFrame", NoMask)
         /\ store' = Touched(store, sid)
         /\ UNCHANGED seeds
    ELSE IF ModelPath(sid)
    THEN IF outcome # "ok"
         THEN /\ ret' = RetObj(op, sid, "Exception", "SegmenterFailed", NoMask)
              /\ store' = [Touched(store, sid) EXCEPT
                              ![sid].inference_state = SegRaised(@, oid, outcome)]
              /\ UNCHANGED seeds
         ELSE /\ ret' = RetObj(op, sid, "ok", "", segMask)
              /\ store' = [Touched(store, sid) EXCEPT
                              ![sid].inference_state = SegAdded(@, oid, f, segMask),
                              ![sid].objects =
                                  (oid :> NewTracked(oid, prompt, f, segMask)) @@ @]
              /\ seeds' = SeedsWithoutObject(sid, oid)
    ELSE /\ ret' = RetObj(op, sid, "ok", "", simMask)
         /\ store' = [Touched(store, sid) EXCEPT
                         ![sid].objects =
                             (oid :> NewTracked(oid, prompt, f, simMask)) @@ @]
         /\ seeds' = SeedsWithoutObject(sid, oid)

add_object(sid, f, oid, points, labels, outcome, segMask) ==
    /\ AddTracked("add_object", sid, f, oid,
                  PointPrompt(f, points, labels, "initial"),
                  simulate_mask(points, labels), outcome, segMask)
    /\ UNCHANGED <<now, predictor, sessions, dirs, nextSid, prop>>
    /\ UNCHANGED jobVars

add_object_with_box(sid, f, oid, box, outcome, segMask) ==
    /\ AddTracked("add_object_with_box", sid, f, oid, BoxPrompt(f, box),
                  simulate_box_mask(box), outcome, segMask)
    /\ UNCHANGED <<now, predictor, sessions, dirs, nextSid, prop>>
    /\ UNCHANGED jobVars

refine_mask(sid, f, oid, points, labels, outcome, segMask) ==
    /\ IF sid \notin sessions
       THEN /\ ret' = RetObj("refine_mask", sid, "ValueError",
                             "SessionNotFound", NoMask)
            /\ UNCHANGED <<store, seeds>>
       ELSE IF oid \notin DOMAIN store[sid].objects
       THEN /\ ret' = RetObj("refine_mask", sid, "ValueError",
                             "ObjectNotFound", NoMask)
            /\ store' = Touched(store, sid)
            /\ UNCHANGED seeds
       ELSE LET o == store[sid].objects[oid]
                recorded == [o EXCEPT !.prompts =
                                Append(@, PointPrompt(f, points, labels, "refinement"))]
                existing == IF f \in DOMAIN o.masks THEN o.masks[f] ELSE ZeroMask
                simMask == apply_refinement_simulation(existing, points, labels)
            IN  IF ModelPath(sid)
                THEN IF outcome # "ok"
                     THEN /\ ret' = RetObj("refine_mask", sid, "Exception",
                                           "SegmenterFailed", NoMask)
                          /\ store' = [Touched(store, sid) EXCEPT
                                          ![sid].inference_state = SegRaised(@, oid, outcome),
                                          ![sid].objects[oid] = recorded]
                          /\ UNCHANGED seeds
                     ELSE /\ ret' = RetObj("refine_mask", sid, "ok", "", segMask)
                          /\ store' = [Touched(store, sid) EXCEPT
                                          ![sid].inference_state = SegAdded(@, oid, f, segMask),
                                          ![sid].objects[oid] = SetMask(recorded, f, segMask)]
                          /\ seeds' = SeedsWith(sid, oid, f, segMask)
                ELSE /\ ret' = RetObj("refine_mask", sid, "ok", "", simMask)
                     /\ store' = [Touched(store, sid) EXCEPT
                                     ![sid].objects[oid] = SetMask(recorded, f, simMask)]
                     /\ seeds' = SeedsWith(sid, oid, f, simMask)
    /\ UNCHANGED <<now, predictor, sessions, dirs, nextSid, prop>>
    /\ UNCHANGED jobVars

update_mask(sid, f, oid, m, outcome) ==
    /\ IF sid \notin sessions
       THEN /\ ret' = RetObj("update_mask", sid, "ValueError",
                             "SessionNotFound", NoMask)
            /\ UNCHANGED <<store, seeds>>
       ELSE IF oid \notin DOMAIN store[sid].objects
       THEN /\ ret' = RetObj("update_mask", sid, "ValueError",
                             "ObjectNotFound", NoMask)
            /\ store' = Touched(store, sid)
            /\ UNCHANGED seeds
       ELSE IF m.ndim # 3 /\ m.ndim # 2
       THEN /\ ret' = RetObj("update_mask", sid, "ValueError",
                             "MaskDims", NoMask)
            /\ store' = Touched(store, sid)
            /\ UNCHANGED seeds
       ELSE LET mask == NormalizeMask(m)
                stored == SetMask(store[sid].objects[oid], f, mask)
            IN  IF ModelPath(sid)
                THEN IF outcome # "ok"
                     THEN \* the except branch re-raises; the stored mask stays
                          /\ ret' = RetObj("update_mask", sid, "ValueError",
                                           "InjectFailed", NoMask)
                          /\ store' = [Touched(store, sid) EXCEPT
                                          ![sid].inference_state = SegRaised(@, oid, outcome),
                                          ![sid].objects[oid] = stored]
                          /\ seeds' = SeedsWithout(sid, oid, f)
                     ELSE /\ ret' = RetObj("update_mask", sid, "ok", "", mask)
                          /\ store' = [Touched(store, sid) EXCEPT
                                          ![sid].inference_state =
                                              SegAdded(@, oid, f, MaskBool(mask)),
                                          ![sid].objects[oid] = stored]
                          /\ seeds' = SeedsWith(sid, oid, f, mask)
                ELSE /\ ret' = RetObj("update_mask", sid, "ok", "", mask)
                     /\ store' = [Touched(store, sid) EXCEPT
                                     ![sid].objects[oid] = stored]
                     /\ seeds' = SeedsWith(sid, oid, f, mask)
    /\ UNCHANGED <<now, predictor, sessions, dirs, nextSid, prop>>
    /\ UNCHANGED jobVars

\* a lookup that answers for every object, with an empty mask where none is
\* stored
FrameMasksOfAll(sid, f) ==
    LET objs == store[sid].objects
    IN  [o \in DOMAIN objs |->
            IF f \in DOMAIN objs[o].masks THEN objs[o].masks[f] ELSE ZeroMask]

\* get_frame_masks: the objects with a mask stored at frame_idx
FrameMasks(sid, f) ==
    LET objs == store[sid].objects
        have == {o \in DOMAIN objs : f \in DOMAIN objs[o].masks}
    IN  [o \in have |-> objs[o].masks[f]]

get_frame_masks(sid, f) ==
    /\ IF sid \notin sessions
       THEN /\ ret' = RetObj("get_frame_masks", sid, "ValueError",
                             "SessionNotFound", NoMask)
            /\ UNCHANGED store
       ELSE /\ ret' = RetObj("get_frame_masks", sid, "ok", "",
                             FrameMasks(sid, f))
            /\ store' = Touched(store, sid)
    /\ UNCHANGED <<now, predictor, sessions, dirs, nextSid, prop, seeds>>
    /\ UNCHANGED jobVars

---------------------------------------------------------------------------
(* Propagation.  propagate_masks runs in its own thread; each streamed     *)
(* frame is one step, and other calls may run between two steps.           *)

\* store without the objects nobody refers to any more
Collected(st, ss, p) ==
    LET keep == ss \cup (IF p.pc = "idle" THEN {} ELSE {p.sid})
    IN  [s \in DOMAIN st \cap keep |-> st[s]]

\* a test that lets a session without objects through
AlwaysSomething(sid) == FALSE

\* not session.objects
NothingToPropagate(sid) == DOMAIN store[sid].objects = {}

\* lines 681-697: resolve the session, refuse an empty one, pick the path
propagate_start(sid) ==
    /\ prop.pc = "idle"
    /\ IF sid \notin sessions
       THEN /\ ret' = Ret("propagate_masks", sid, "ValueError", "SessionNotFound", 0)
            /\ UNCHANGED <<store, prop>>
       ELSE IF NothingToPropagate(sid)
       THEN /\ ret' = Ret("propagate_masks", sid, "ValueError", "NoObjects", 0)
            /\ store' = Touched(store, sid)
            /\ UNCHANGED prop
       ELSE /\ store' = Touched(store, sid)
            /\ prop' = [pc |-> IF ModelPath(sid) THEN "model" ELSE "simulate",
                        sid |-> sid, frame_count |-> 0, idx |-> 0]
            /\ ret' = Ret("propagate_start", sid, "ok", "", 0)
    /\ UNCHANGED <<now, predictor, sessions, dirs, nextSid, seeds>>
    /\ UNCHANGED jobVars

\* frame_count % 10 == 0: session.update_access_time()
KeepAlive(s, frame_count) ==
    IF frame_count % touch_every = 0
    THEN [s EXCEPT !.last_accessed = now] ELSE s

\* one iteration of the loop over predictor.propagate_in_video
\* (lines 713-753), or the stream raising
propagate_frame(outcome) ==
    /\ prop.pc = "model"
    /\ prop.idx < store[prop.sid].total_frames
    /\ LET sid == prop.sid
           s == store[sid]
           f == prop.idx
       IN  IF outcome # "ok"
           THEN /\ prop' = IdleProp
                /\ store' = Collected(store, sessions, IdleProp)
                /\ ret' = Ret("propagate_masks", sid, "Exception", "SegmenterFailed", f)
           ELSE \E ms \in StreamedMasks(s.inference_state, f) :
                /\ store' = [store EXCEPT ![sid] =
                     KeepAlive(
                       [s EXCEPT !.objects =
                          [o \in DOMAIN s.objects |->
                              IF o \in DOMAIN ms
                              THEN SetMask(s.objects[o], f, ms[o])
                              ELSE s.objects[o]]],
                       prop.frame_count + 1)]
                /\ prop' = [prop EXCEPT !.frame_count = @ + 1, !.idx = @ + 1]
                /\ ret' = Ret("propagate_frame", sid, "ok", "", f)
    /\ UNCHANGED <<now, predictor, sessions, dirs, nextSid, seeds>>
    /\ UNCHANGED jobVars

\* one iteration of _simulate_propagation's loop over the frames
simulate_propagation_frame ==
    /\ prop.pc = "simulate"
    /\ prop.idx < store[prop.sid].total_frames
    /\ LET sid == prop.sid
           s == store[sid]
           f == prop.idx
           Propagated(o) ==
               LET nearest == NearestFrame(o.mask_order, f)
                   shift == (f - nearest) * 2
               IN  IF shift # 0 THEN WarpShift(o.masks[nearest], shift)
                   ELSE o.masks[nearest]
       IN  /\ store' = [store EXCEPT ![sid].objects =
                  [o \in DOMAIN s.objects |->
                      IF s.objects[o].mask_order = <<>> THEN s.objects[o]
                      ELSE SetMask(s.objects[o], f, Propagated(s.objects[o]))]]
           /\ prop' = [prop EXCEPT !.idx = @ + 1]
           /\ ret' = Ret("propagate_frame", sid, "ok", "", f)
    /\ UNCHANGED <<now, predictor, sessions, dirs, nextSid, seeds>>
    /\ UNCHANGED jobVars

\* the stream ended: propagate_masks returns its results
propagate_return ==
    /\ prop.pc # "idle"
    /\ prop.idx >= store[prop.sid].total_frames
    /\ prop' = IdleProp
    /\ store' = Collected(store, sessions, IdleProp)
    /\ ret' = Ret("propagate_masks", prop.sid, "ok", "", store[prop.sid].total_frames)
    /\ UNCHANGED <<now, predictor, sessions, dirs, nextSid, seeds>>
    /\ UNCHANGED jobVars

---------------------------------------------------------------------------
(* Initial state: after SAM2VideoPredictor() and InMemoryJobManager() *)

Init ==
    /\ now = 0
    /\ predictor = FALSE
    /\ sessions = {}
    /\ store = <<>>
    /\ dirs = {}
    /\ nextSid = 1
    /\ prop = IdleProp
    /\ ret = NoRet
    /\ seeds = <<>>
    /\ jobs = <<>>
    /\ nextJid = 1
    /\ submitting = <<>>
    /\ queue = <<>>
    /\ worker = [w \in 1 .. max_workers |-> IdleWorker]
    /\ executed = {}

---------------------------------------------------------------------------
(* The session manager alone: Open, Get, Close, SweepExpired, the clock *)

MgrVideos ==
    {[readable |-> TRUE, nframes |-> 2, init_fails |-> FALSE],
     [readable |-> TRUE, nframes |-> max_video_frames + 1, init_fails |-> FALSE],
     [readable |-> FALSE, nframes |-> 0, init_fails |-> FALSE],
     [readable |-> TRUE, nframes |-> 2, init_fails |-> TRUE]}

SessionIds == 1 .. MaxOpens

MgrOpen == \E v \in MgrVideos : create_session(v)
MgrGet == \E sid \in SessionIds : get_session(sid)
MgrClose == \E sid \in SessionIds : close_session(sid)
MgrSweep == cleanup_expired_sessions

NextMgr ==
    \/ MgrOpen
    \/ MgrGet
    \/ MgrClose
    \/ MgrSweep
    \/ initialize
    \/ Tick

SpecMgr == Init /\ [][NextMgr]_vars

\* C1: after any sequence of Open, Get, Close and SweepExpired (and clock
\* advances) the session table never holds more than max_concurrent_sessions
\* sessions.
C1_SessionLimit == Cardinality(sessions) <= max_concurrent_sessions

\* a third Open was admitted while the table is full again
C1_Witness ==
    /\ ret.op = "create_session" /\ ret.status = "ok" /\ ret.sid = MaxOpens
    /\ Cardinality(sessions) = max_concurrent_sessions

\* C2: an Open at capacity first sweeps the expired sessions.  When the sweep
\* closed at least one, the Open is not refused for capacity and the swept
\* sessions and their scratch directories are gone; when it closed none, the
\* Open fails with the capacity error naming the limit and leaves the session
\* table and the scratch directories as they were.
C2_OpenAtCapacity ==
    [][(MgrOpen /\ Cardinality(sessions) >= max_concurrent_sessions) =>
          LET expired == {s \in sessions :
                             now - store[s].last_accessed > session_timeout}
          IN  IF expired = {}
              THEN /\ ret'.status = "RuntimeError"
                   /\ ret'.why = "MaxSessions"
                   /\ ret'.n = max_concurrent_sessions
                   /\ sessions' = sessions
                   /\ dirs' = dirs
                   /\ nextSid' = nextSid
              ELSE /\ ret'.why # "MaxSessions"
                   /\ expired \cap sessions' = {}
                   /\ expired \cap dirs' = {}
                   /\ ret'.status = "ok" => ret'.sid \in sessions'
                   /\ Cardinality(sessions') <= max_concurrent_sessions]_vars

\* an Open at capacity was admitted because its sweep closed a session
C2_Witness ==
    /\ ret.op = "create_session" /\ ret.status = "ok"
    /\ ret.cleaned >= 1 /\ ret.sid \in sessions

\* C20: SweepExpired closes exactly the sessions idle for longer than
\* session_timeout: it removes each from the table and deletes its
\* frames_dir, leaves every other session as it was, and returns how many
\* it closed; a later Get on an id that is not in the table finds nothing.
C20_SweepExpired ==
    [][/\ (now' = now /\ ret'.op = "cleanup_expired_sessions") =>
             LET idle == {s \in sessions :
                            now - store[s].last_accessed > session_timeout}
             IN  /\ sessions' = sessions \ idle
                 /\ dirs' = dirs \ {store[s].frames_dir : s \in idle}
                 /\ \A s \in sessions \ idle : store'[s] = store[s]
                 /\ ret'.status = "ok"
                 /\ ret'.n = Cardinality(idle)
       /\ (now' = now /\ ret'.op = "get_session"
                      /\ ret'.sid \notin sessions) =>
             /\ ret'.why = "None"
             /\ sessions' = sessions /\ dirs' = dirs /\ store' = store]_vars

\* a sweep closed one session and left a younger one open
C20_Witness ==
    /\ ret.op = "cleanup_expired_sessions" /\ ret.status = "ok"
    /\ ret.n >= 1
    /\ sessions # {}
    /\ Cardinality(dirs) < nextSid - 1

\* C21: Get on a session of the table returns it and sets its last_accessed
\* to the current time, changing no other field of it and nothing of any
\* other session; Get on an id that is not in the table returns None and
\* changes no state.
C21_GetRefreshes ==
    [][(now' = now /\ ret'.op = "get_session") =>
          LET sid == ret'.sid
          IN  /\ ret'.status = "ok"
              /\ sessions' = sessions
              /\ dirs' = dirs
              /\ IF sid \in sessions
                 THEN /\ ret'.why = ""
                      /\ store'[sid].last_accessed = now
                      /\ [store' EXCEPT ![sid].last_accessed =
                                            store[sid].last_accessed] = store
                 ELSE /\ ret'.why = "None"
                      /\ store' = store]_vars

\* Get refreshed a session opened earlier, next to another session that
\* keeps its older last_accessed
C21_Witness ==
    /\ ret.op = "get_session" /\ ret.why = ""
    /\ ret.sid \in sessions
    /\ store[ret.sid].last_accessed = now
    /\ store[ret.sid].created_at < now
    /\ \E s \in sessions \ {ret.sid} : store[s].last_accessed < now

---------------------------------------------------------------------------
(* Opening and closing: the manager's close operation and the request      *)
(* handler in front of it                                                  *)

CloseVideos ==
    {[readable |-> TRUE, nframes |-> 2, init_fails |-> FALSE],
     [readable |-> TRUE, nframes |-> 2, init_fails |-> TRUE]}

ClOpen == \E v \in CloseVideos : create_session(v)
ClClose == \E sid \in SessionIds : close_session(sid)
ClCloseRequest == \E sid \in SessionIds : close_session_handler(sid)
ClSweep == cleanup_expired_sessions

NextClose ==
    \/ ClOpen
    \/ ClClose
    \/ ClCloseRequest
    \/ ClSweep
    \/ initialize
    \/ Tick

SpecClose == Init /\ [][NextClose]_vars

\* the session table: the open sessions and what is kept for each
SessionTable == [s \in sessions |-> store[s]]

CloseOps == {"close_session", "close_session_handler"}

\* an Open that returned a session id
Opened(r) == r.op = "create_session" /\ r.status = "ok"

\* this step is a call, which returned ret': every step but the clock's is
Returned == now' = now

\* C18 (as stated): Open(v) followed by Close of the returned id leaves the
\* session table and the scratch directories equal to what they were before
\* the Open.  The Open half: apart from the new session and its frames_dir,
\* the table and the directories are what they were.
C18_OpenThenCloseRestores ==
    [][(Returned /\ Opened(ret')) =>
          /\ [s \in sessions' \ {ret'.sid} |-> store'[s]] = SessionTable
          /\ dirs' \ {store'[ret'.sid].frames_dir} = dirs]_vars

\* C18 (amended): Open(v) followed by Close of the returned id leaves the
\* session table and the scratch directories equal to what they were before
\* the Open, less the expired sessions the Open closed because the table was
\* at its limit.  The Open adds one new session and one new frames_dir to
\* what its sweep left; the Close of that id removes exactly the two.
C18_OpenThenClose ==
    [][/\ (Returned /\ Opened(ret')) =>
             LET sid == ret'.sid
                 swept == IF Cardinality(sessions) >= max_concurrent_sessions
                          THEN {s \in sessions :
                                  now - store[s].last_accessed > session_timeout}
                          ELSE {}
             IN  /\ sid \notin sessions
                 /\ sid \in sessions'
                 /\ store'[sid].frames_dir \notin dirs
                 /\ store'[sid].frames_dir \in dirs'
                 /\ [s \in sessions' \ {sid} |-> store'[s]]
                      = [s \in sessions \ swept |-> store[s]]
                 /\ dirs' \ {store'[sid].frames_dir}
                      = dirs \ {store[s].frames_dir : s \in swept}
       /\ (Opened(ret) /\ Returned /\ ret'.op \in CloseOps
                       /\ ret'.sid = ret.sid) =>
             /\ ret'.status = "ok"
             /\ SessionTable' = [s \in sessions \ {ret.sid} |-> store[s]]
             /\ dirs' = dirs \ {store[ret.sid].frames_dir}]_vars

\* the session opened last was closed through the request handler, which
\* found it open; another session is still there
C18_Witness ==
    /\ ret.op = "close_session_handler" /\ ret.status = "ok"
    /\ ret.sid = nextSid - 1
    /\ ret.sid \notin sessions /\ ret.sid \notin dirs
    /\ sessions # {}

\* C19: Close on a session id that is not open reports no error and changes
\* no state, in the manager's close operation and in the request handler.
C19_CloseUnknownIsNoOp ==
    [][(Returned /\ ret'.op \in CloseOps /\ ret'.sid \notin sessions) =>
          /\ ret'.status = "ok"
          /\ sessions' = sessions
          /\ store' = store
          /\ dirs' = dirs]_vars

---------------------------------------------------------------------------
(* One session and its tracked objects: interactive calls interleaved with *)
(* the propagation thread's frame steps                                    *)

\* frames of the video opened here
NumFrames == 2
\* object ids the client uses: 1 .. MaxObjectId
MaxObjectId == 1
\* prompt records kept per object
MaxPrompts == 2

ObjVideo == [readable |-> TRUE, nframes |-> NumFrames, init_fails |-> FALSE]
ObjectIds == 1 .. MaxObjectId
AddFrames == -1 .. NumFrames
EditFrames == 0 .. NumFrames - 1

PointInputs ==
    {[points |-> << <<0, 0>> >>, labels |-> <<1>>],
     [points |-> << <<0, 0>>, <<1, 0>> >>, labels |-> <<0, 1>>]}

BoxInputs == {<<0, 0, 1, 0>>}

Row(a, b) == [i \in Pixels |-> IF i = 1 THEN a ELSE b]

\* a uint8 mask, a 3-channel mask at the threshold, a float mask of another
\* width, and a mask of one dimension
OverrideInputs ==
    {[ndim |-> 2, dtype |-> "uint8", px |-> Row(255, 0)],
     [ndim |-> 3, dtype |-> "uint8", px |-> Row(128, 129)],
     [ndim |-> 2, dtype |-> "float", px |-> [i \in 1 .. frame_width + 1 |-> 1]],
     [ndim |-> 1, dtype |-> "uint8", px |-> Row(255, 255)]}

ObjOpen == nextSid = 1 /\ create_session(ObjVideo)
ObjClose == close_session(1)
\* the Segmenter is only called on the model path
OutcomesFor(sid) ==
    IF sid \in sessions /\ ModelPath(sid) THEN SegOutcomes ELSE {"ok"}
\* the Segmenter returns a mask only when it returns
MasksFor(sid, outcome) ==
    IF sid \in sessions /\ ModelPath(sid) /\ outcome = "ok"
    THEN SegMasks ELSE {NoMask}

ObjAdd ==
    \E f \in AddFrames, oid \in ObjectIds, p \in PointInputs,
       outcome \in OutcomesFor(1) :
      \E m \in MasksFor(1, outcome) :
        add_object(1, f, oid, p.points, p.labels, outcome, m)
ObjAddBox ==
    \E f \in AddFrames, oid \in ObjectIds, b \in BoxInputs,
       outcome \in OutcomesFor(1) :
      \E m \in MasksFor(1, outcome) :
        add_object_with_box(1, f, oid, b, outcome, m)
ObjRefine ==
    \E f \in EditFrames, oid \in ObjectIds, p \in PointInputs,
       outcome \in OutcomesFor(1) :
      \E m \in MasksFor(1, outcome) :
        /\ (1 \in sessions /\ oid \in DOMAIN store[1].objects)
              => Len(store[1].objects[oid].prompts) < MaxPrompts
        /\ refine_mask(1, f, oid, p.points, p.labels, outcome, m)
ObjOverride ==
    \E f \in EditFrames, oid \in ObjectIds, m \in OverrideInputs,
       outcome \in OutcomesFor(1) :
        update_mask(1, f, oid, m, outcome)
ObjGetMasks == \E f \in EditFrames : get_frame_masks(1, f)
ObjPropagate == propagate_start(1)
ObjStream == \E outcome \in {"ok", "raise"} : propagate_frame(outcome)

NextObj ==
    \/ ObjOpen
    \/ ObjClose
    \/ initialize
    \/ ObjAdd
    \/ ObjAddBox
    \/ ObjRefine
    \/ ObjOverride
    \/ ObjGetMasks
    \/ ObjPropagate
    \/ ObjStream
    \/ simulate_propagation_frame
    \/ propagate_return

SpecObj == Init /\ [][NextObj]_vars

\* the objects map of the session opened here
Objects(st) == IF 1 \in DOMAIN st THEN st[1].objects ELSE <<>>

IsPrefix(a, b) == Len(a) <= Len(b) /\ \A i \in 1 .. Len(a) : a[i] = b[i]

\* propagate_masks is between its first and its last frame
Streaming == prop.pc # "idle"

\* this step is one frame of a running propagation
FrameStep == prop.pc # "idle" /\ prop'.pc # "idle" /\ prop'.idx = prop.idx + 1

\* a step of one of the interactive calls on the session
InteractiveStep == ObjAdd \/ ObjAddBox \/ ObjRefine \/ ObjOverride

\* C4: when OverrideMask has stored the mask locally and the injection into
\* the Segmenter then fails, the call is reported as failed and the masks of
\* the object are what they were before the call.
C4_RollbackOnInjectFailure ==
    [][(ObjOverride /\ ret'.why = "InjectFailed") =>
          /\ ret'.status # "ok"
          /\ \A oid \in DOMAIN Objects(store) :
                Objects(store')[oid].masks = Objects(store)[oid].masks]_vars

\* C7: while propagate_masks is streaming frames for the session, no
\* AddObject, AddObjectWithBox, Refine or OverrideMask step on that session
\* changes its Segmenter state or its objects map.
C7_ExclusiveWhileStreaming ==
    [][(Streaming /\ prop.sid = 1 /\ 1 \in sessions /\ InteractiveStep) =>
          /\ Objects(store') = Objects(store)
          /\ store'[1].inference_state = store[1].inference_state]_vars

\* C22: when the session of a running propagation has been closed, the
\* next step of the propagation ends it with a SessionGone failure: it
\* neither carries on to another frame nor returns successfully.
C22_StopsWhenSessionGone ==
    [][(Streaming /\ prop.sid \notin sessions /\ prop' # prop) =>
          /\ prop'.pc = "idle"
          /\ ret'.op = "propagate_masks"
          /\ ret'.status # "ok"
          /\ ret'.why = "SessionGone"]_vars

\* C31: when a propagation over the whole video returns for a session that
\* is still open, every tracked object of the session has a mask on every
\* frame of [0, total_frames), and the output counts one entry per frame.
C31_MasksOnEveryFrame ==
    [][(Streaming /\ prop'.pc = "idle" /\ prop.sid \in sessions
          /\ ret'.op = "propagate_masks" /\ ret'.status = "ok") =>
          LET s == store'[prop.sid]
          IN  /\ ret'.n = s.total_frames
              /\ \A o \in DOMAIN s.objects :
                    \A f \in 0 .. s.total_frames - 1 :
                        f \in DOMAIN s.objects[o].masks]_vars

\* C8: prompt lists only grow by appending: from one state to the next, every
\* object of an open session keeps its prompt list as a prefix of the new
\* one (so every earlier list is a prefix of every later one).
C8_PromptsAppendOnly ==
    [][(1 \in sessions /\ 1 \in sessions') =>
          \A oid \in DOMAIN Objects(store) :
              /\ oid \in DOMAIN Objects(store')
              /\ IsPrefix(Objects(store)[oid].prompts,
                          Objects(store')[oid].prompts)]_vars

\* C9: whenever no propagation is running, a mask stored by a successful
\* OverrideMask (the normalized input) or by a successful Refine is still the
\* mask of its frame: right after the call, and after every completed
\* Propagate, until a later Refine or OverrideMask on the same object and
\* frame (or the object is added anew).
C9_SeedsKept ==
    \A k \in DOMAIN seeds :
        (k[1] \in sessions /\ ~Streaming) =>
            /\ k[2] \in DOMAIN store[k[1]].objects
            /\ k[3] \in DOMAIN store[k[1]].objects[k[2]].masks
            /\ store[k[1]].objects[k[2]].masks[k[3]] = seeds[k]

\* C10: right after a successful AddObject or AddObjectWithBox the objects map
\* holds the added object, its prompt list is the one initial record, and its
\* masks hold the returned mask at the frame that record is stamped with; and
\* in every state every object's masks contain the frame of its initial
\* prompt.
C10_InitialFrameHasMask ==
    /\ (ret.op \in {"add_object", "add_object_with_box"} /\ ret.status = "ok") =>
          \E oid \in DOMAIN Objects(store) :
              LET o == Objects(store)[oid]
              IN  /\ Len(o.prompts) = 1
                  /\ o.prompts[1].type =
                        (IF ret.op = "add_object" THEN "initial" ELSE "initial_box")
                  /\ o.prompts[1].frame_idx \in DOMAIN o.masks
                  /\ o.masks[o.prompts[1].frame_idx] = ret.mask
    /\ \A s \in DOMAIN store : \A oid \in DOMAIN store[s].objects :
          LET o == store[s].objects[oid]
          IN  /\ Len(o.prompts) >= 1
              /\ o.prompts[1].type \in {"initial", "initial_box"}
              /\ o.prompts[1].frame_idx \in DOMAIN o.masks

\* the masks in the response to the last call, as main.py encodes them:
\* the one mask of /add-object, /add-object-box and /refine (and of the
\* predictor's update_mask), the mask of every object of /frame-masks
ResponseMasks ==
    IF ret.status # "ok" THEN {}
    ELSE IF ret.op \in {"add_object", "add_object_with_box", "refine_mask",
                        "update_mask"}
    THEN {encode_mask(Uint8(ret.mask))}
    ELSE IF ret.op = "get_frame_masks"
    THEN {encode_mask(Uint8(ret.mask[o])) : o \in DOMAIN ret.mask}
    ELSE {}

\* C11: every mask in a response (Add object, Add object by box, Refine,
\* Override mask, Get frame masks) has every pixel value in {0, 255}.
C11_WirePixels ==
    \A w \in ResponseMasks : \A i \in DOMAIN w : w[i] \in {0, 255}

\* C15: for every open session that has a Segmenter state, the object ids
\* held in that state are exactly the keys of the session's objects map,
\* after any sequence of calls, those in which the Segmenter fails included.
C15_SegmenterAgreesOnObjects ==
    \A s \in sessions :
        store[s].inference_state.ready =>
            store[s].inference_state.obj_ids = DOMAIN store[s].objects

\* an object added on the last frame, refined, and a propagation completed
C10_Witness ==
    /\ ret.op = "propagate_masks" /\ ret.status = "ok"
    /\ 1 \in sessions /\ 1 \in DOMAIN store[1].objects
    /\ store[1].objects[1].prompts[1].frame_idx = NumFrames - 1
    /\ Len(store[1].objects[1].prompts) = MaxPrompts
    /\ DOMAIN store[1].objects[1].masks = 0 .. NumFrames - 1

---------------------------------------------------------------------------
(* One session and two object ids: the interactive calls one at a time,    *)
(* with no propagation running                                             *)

CallObjectIds == 1 .. MaxObjectId + 1
CallPoints == << <<0, 0>> >>
CallLabels == <<1>>

\* the Segmenter either returns this one mask or raises
CallOutcomes == OutcomesFor(1) \cap {"ok", "raise"}
CallMasks(outcome) == MasksFor(1, outcome) \cap {NoMask, Row(1, 0)}

CallOpen == nextSid = 1 /\ create_session(ObjVideo)
CallAdd(f) ==
    \E oid \in CallObjectIds, outcome \in CallOutcomes :
      \E m \in CallMasks(outcome) :
        add_object(1, f, oid, CallPoints, CallLabels, outcome, m)
CallAddBox(f) ==
    \E oid \in CallObjectIds, b \in BoxInputs, outcome \in CallOutcomes :
      \E m \in CallMasks(outcome) :
        add_object_with_box(1, f, oid, b, outcome, m)
CallRefine(f, oid) ==
    \E outcome \in CallOutcomes :
      \E m \in CallMasks(outcome) :
        /\ (1 \in sessions /\ oid \in DOMAIN store[1].objects)
              => Len(store[1].objects[oid].prompts) < MaxPrompts
        /\ refine_mask(1, f, oid, CallPoints, <<0>>, outcome, m)
CallGetMasks(f) == get_frame_masks(1, f)

CallsAdd == \E f \in AddFrames : CallAdd(f)
CallsAddBox == \E f \in AddFrames : CallAddBox(f)
CallsRefine == \E f \in EditFrames, oid \in CallObjectIds : CallRefine(f, oid)
CallsGetMasks == \E f \in EditFrames : CallGetMasks(f)

NextCalls ==
    \/ CallOpen
    \/ initialize
    \/ CallsAdd
    \/ CallsAddBox
    \/ CallsRefine
    \/ CallsGetMasks

SpecCalls == Init /\ [][NextCalls]_vars

\* C13: AddObject and AddObjectWithBox on an open session reject
\* frame_idx = -1 and frame_idx = total_frames with the invalid-frame error,
\* leaving the objects map, the Segmenter state, the session table and the
\* scratch directories unchanged; they do not reject frame_idx = 0 or
\* frame_idx = total_frames - 1 for their frame.
C13_AddFrameBounds ==
    [][(1 \in sessions /\ ret'.op \in {"add_object", "add_object_with_box"}) =>
          LET total == store[1].total_frames
          IN  /\ \A f \in {-1, total} :
                    (CallAdd(f) \/ CallAddBox(f)) =>
                        /\ ret'.status = "ValueError"
                        /\ ret'.why = "InvalidFrame"
                        /\ Objects(store') = Objects(store)
                        /\ store'[1].inference_state = store[1].inference_state
                        /\ store'[1].frames_dir = store[1].frames_dir
                        /\ sessions' = sessions
                        /\ dirs' = dirs
              /\ \A f \in {0, total - 1} :
                    (CallAdd(f) \/ CallAddBox(f)) => ret'.why # "InvalidFrame"]_vars

\* an add was rejected for its frame while the session holds an object
C13_Witness ==
    /\ ret.op \in {"add_object", "add_object_with_box"}
    /\ ret.why = "InvalidFrame"
    /\ 1 \in sessions /\ DOMAIN store[1].objects # {}
    /\ store[1].frames_dir \in dirs

\* C16: a Refine on an object id absent from the session fails with
\* ObjectNotFound and changes no prompts and no masks; a successful
\* Refine(f, oid) appends exactly one refinement record (stamped with f and
\* carrying the points and labels) to oid's prompts, replaces only the mask at
\* (oid, f), and leaves the other frames' masks of oid and every other object
\* as they were.
C16_RefineEffect ==
    [][(1 \in sessions /\ ret'.op = "refine_mask") =>
          \A f \in EditFrames, oid \in CallObjectIds :
              CallRefine(f, oid) =>
                  IF oid \notin DOMAIN Objects(store)
                  THEN /\ ret'.status = "ValueError"
                       /\ ret'.why = "ObjectNotFound"
                       /\ Objects(store') = Objects(store)
                  ELSE ret'.status = "ok" =>
                       LET o == Objects(store)[oid]
                           n == Objects(store')[oid]
                       IN  /\ DOMAIN Objects(store') = DOMAIN Objects(store)
                           /\ n.prompts =
                                 Append(o.prompts,
                                        [frame_idx |-> f, type |-> "refinement",
                                         points |-> CallPoints, labels |-> <<0>>,
                                         box |-> <<>>])
                           /\ DOMAIN n.masks = DOMAIN o.masks \cup {f}
                           /\ n.masks[f] = ret'.mask
                           /\ \A g \in DOMAIN o.masks \ {f} :
                                 n.masks[g] = o.masks[g]
                           /\ n.object_id = o.object_id
                           /\ \A other \in DOMAIN Objects(store) \ {oid} :
                                 Objects(store')[other] = Objects(store)[other]]_vars

\* a Refine succeeded on one of two objects, on a frame other than the one
\* the object was added on
C16_Witness ==
    /\ ret.op = "refine_mask" /\ ret.status = "ok"
    /\ 1 \in sessions /\ DOMAIN store[1].objects = CallObjectIds
    /\ \E oid \in CallObjectIds :
          LET o == store[1].objects[oid]
          IN  /\ Len(o.prompts) = 2
              /\ o.prompts[2].type = "refinement"
              /\ o.prompts[2].frame_idx # o.prompts[1].frame_idx
              /\ o.masks[o.prompts[2].frame_idx] = ret.mask

\* C17: GetFrameMasks(f) on an open session returns exactly the objects
\* that have a mask stored at frame f, each with that stored mask, and
\* changes nothing of the session other than last_accessed.
C17_GetFrameMasks ==
    [][(1 \in sessions /\ ret'.op = "get_frame_masks") =>
          \A f \in EditFrames :
              CallGetMasks(f) =>
                  LET objs == store[1].objects
                  IN  /\ ret'.status = "ok"
                      /\ DOMAIN ret'.mask =
                            {o \in DOMAIN objs : f \in DOMAIN objs[o].masks}
                      /\ \A o \in DOMAIN ret'.mask :
                            ret'.mask[o] = objs[o].masks[f]
                      /\ [store' EXCEPT ![1].last_accessed =
                                            store[1].last_accessed] = store
                      /\ sessions' = sessions
                      /\ dirs' = dirs]_vars

\* GetFrameMasks answered with one object's mask and left another object,
\* which has no mask on that frame, out
C17_Witness ==
    /\ ret.op = "get_frame_masks" /\ ret.status = "ok"
    /\ 1 \in sessions
    /\ DOMAIN ret.mask # {}
    /\ DOMAIN ret.mask # DOMAIN store[1].objects

---------------------------------------------------------------------------
(* One session and one object: point prompts of every shape, well formed   *)
(* or not                                                                  *)

\* more points than labels; a label that is neither 0 nor 1
BadPointInputs ==
    {[points |-> << <<0, 0>>, <<1, 0>> >>, labels |-> <<1>>],
     [points |-> << <<0, 0>> >>, labels |-> <<2>>]}

InOpen == nextSid = 1 /\ create_session(ObjVideo)
InAdd(p) ==
    \E outcome \in OutcomesFor(1) :
      \E m \in MasksFor(1, outcome) :
        add_object(1, 0, 1, p.points, p.labels, outcome, m)
InRefine(p) ==
    \E f \in EditFrames, outcome \in OutcomesFor(1) :
      \E m \in MasksFor(1, outcome) :
        /\ (1 \in sessions /\ 1 \in DOMAIN store[1].objects)
              => Len(store[1].objects[1].prompts) < MaxPrompts
        /\ refine_mask(1, f, 1, p.points, p.labels, outcome, m)
InAdds == \E p \in PointInputs \cup BadPointInputs : InAdd(p)
InRefines == \E p \in PointInputs \cup BadPointInputs : InRefine(p)
InGetMasks == \E f \in EditFrames : get_frame_masks(1, f)

NextInputs ==
    \/ InOpen
    \/ initialize
    \/ InAdds
    \/ InRefines
    \/ InGetMasks

SpecInputs == Init /\ [][NextInputs]_vars

\* C14: an AddObject whose points and labels differ in length, or whose
\* labels hold a value outside {0, 1}, fails with the invalid-argument error,
\* creates no TrackedObject and leaves the Segmenter state as it was.  (A
\* step that a well-formed AddObject could also have taken says nothing
\* about the malformed one and is left out.)
C14_RejectsMalformedPrompts ==
    [][(1 \in sessions /\ ret'.op = "add_object") =>
          \A p \in BadPointInputs :
              (InAdd(p) /\ ~(\E q \in PointInputs : InAdd(q))) =>
                  /\ ret'.status = "ValueError"
                  /\ Objects(store') = Objects(store)
                  /\ store'[1].inference_state = store[1].inference_state]_vars

---------------------------------------------------------------------------
(* One session whose Refine and OverrideMask calls take any integer        *)
(* frame_idx: in range, one below and one above                            *)

AnyFrames == -1 .. NumFrames
\* the frames just outside the video
OutsideFrames == {-1, NumFrames}

FrOpen == nextSid = 1 /\ create_session(ObjVideo)
FrAdd ==
    \E outcome \in OutcomesFor(1) \cap {"ok", "raise"} :
      \E m \in MasksFor(1, outcome) :
        add_object(1, 0, 1, << <<0, 0>> >>, <<1>>, outcome, m)
FrRefine ==
    \E f \in AnyFrames, outcome \in OutcomesFor(1) \cap {"ok", "raise"} :
      \E m \in MasksFor(1, outcome) :
        /\ (1 \in sessions /\ 1 \in DOMAIN store[1].objects)
              => Len(store[1].objects[1].prompts) < MaxPrompts
        /\ refine_mask(1, f, 1, << <<0, 0>> >>, <<1>>, outcome, m)
FrOverride ==
    \E f \in OutsideFrames, outcome \in OutcomesFor(1) \cap {"ok", "raise"} :
        update_mask(1, f, 1,
                    [ndim |-> 2, dtype |-> "uint8", px |-> Row(255, 0)], outcome)
FrPropagate == propagate_start(1)
FrStream == propagate_frame("ok")

NextFrames ==
    \/ FrOpen
    \/ initialize
    \/ FrAdd
    \/ FrRefine
    \/ FrOverride
    \/ FrPropagate
    \/ FrStream
    \/ simulate_propagation_frame
    \/ propagate_return

SpecFrames == Init /\ [][NextFrames]_vars

\* C12: in every reachable state of a session, every frame_idx in any
\* object's prompts and every key of any object's masks lies in
\* [0, total_frames), whatever integer frame_idx the calls were given.
C12_FramesInRange ==
    \A s \in sessions : \A oid \in DOMAIN store[s].objects :
        LET o == store[s].objects[oid]
            valid == 0 .. store[s].total_frames - 1
        IN  /\ \A i \in 1 .. Len(o.prompts) : o.prompts[i].frame_idx \in valid
            /\ DOMAIN o.masks \subseteq valid

---------------------------------------------------------------------------
(* A long propagation against the periodic sweep: one session, one object, *)
(* the propagation thread's frame steps interleaved with                   *)
(* cleanup_expired_sessions and the clock                                  *)

\* frames of the video opened here: enough for the loop to reach a touch
LongFrames == 10

LongVideo == [readable |-> TRUE, nframes |-> LongFrames, init_fails |-> FALSE]

KaOpen == nextSid = 1 /\ create_session(LongVideo)
KaAdd ==
    /\ 1 \in sessions /\ DOMAIN store[1].objects = {}
    /\ \E m \in MasksFor(1, "ok") :
          add_object(1, 0, 1, << <<0, 0>> >>, <<1>>, "ok", m)
KaPropagate == propagate_start(1)
KaStream == propagate_frame("ok")
KaSweep == cleanup_expired_sessions

NextKeepAlive ==
    \/ KaOpen
    \/ initialize
    \/ KaAdd
    \/ KaPropagate
    \/ KaStream
    \/ simulate_propagation_frame
    \/ propagate_return
    \/ KaSweep
    \/ Tick

SpecKeepAlive == Init /\ [][NextKeepAlive]_vars

\* C3: while a propagation is running for a session, no interleaved sweep
\* closes that session, whatever the interleaving of the propagation's frame
\* steps with sweeps and clock advances.
C3_NotSweptWhileStreaming ==
    [][(Streaming /\ prop.sid \in sessions /\ KaSweep) =>
          prop.sid \in sessions']_vars

\* C37: while a propagation streams, the session's last_accessed is
\* refreshed at least once in every touch_every consecutive frames, on the
\* model path and on the simulation path alike: the frame that completes a
\* run of touch_every streamed frames leaves last_accessed at the current
\* time.
C37_TouchedEveryTenFrames ==
    [][(FrameStep /\ prop.sid \in sessions
          /\ prop'.idx % touch_every = 0) =>
          store'[prop.sid].last_accessed = now]_vars

---------------------------------------------------------------------------
(* InMemoryJobManager *)

\* jobs submitted in one run
MaxJobs == 2
\* max_age_seconds of the job sweep, in clock ticks
JobRetention == 1

\* Optional fields that are None
NoTime == -1
NoError == "<None>"
NoResult == [kind |-> "None", d |-> <<>>, v |-> 0]

\* Job(job_id, job_type, status=PENDING, created_at=datetime.now(), params)
Job(created) ==
    [status |-> "pending", created_at |-> created, started_at |-> NoTime,
     completed_at |-> NoTime, progress |-> 0, result |-> NoResult,
     error |-> NoError]

\* a result stored as the task returned it
KeepsFrames(r) == r

\* _sanitize_result: a dict loses its 'frames' key, anything else is kept
sanitize_result(r) ==
    IF r.kind = "dict"
    THEN [r EXCEPT !.d = [k \in DOMAIN r.d \ {"frames"} |-> r.d[k]]]
    ELSE r

\* submit_job, lines 147-159: the PENDING record is inserted under the lock
submit_insert ==
    /\ nextJid <= MaxJobs
    /\ jobs' = (nextJid :> Job(now)) @@ jobs
    /\ submitting' = (nextJid :> "inserted") @@ submitting
    /\ nextJid' = nextJid + 1
    /\ UNCHANGED <<queue, worker, executed>>
    /\ UNCHANGED now
    /\ UNCHANGED predVars

\* submit_job, line 162: executor.submit(self._execute_job, ...)
submit_enqueue(jid) ==
    /\ jid \in DOMAIN submitting
    /\ submitting[jid] = "inserted"
    /\ queue' = Append(queue, jid)
    /\ submitting' = [submitting EXCEPT ![jid] = "queued"]
    /\ UNCHANGED <<jobs, nextJid, worker, executed>>
    /\ UNCHANGED now
    /\ UNCHANGED predVars

\* the fields submit_job writes under its second lock
MarkedRunning(job) == [job EXCEPT !.status = "running", !.started_at = now]

\* submit_job, lines 165-170: status = RUNNING, started_at = now, return.
\* self.jobs[job_id] raises KeyError when the job sweep removed the record.
submit_mark_running(jid) ==
    /\ jid \in DOMAIN submitting
    /\ submitting[jid] = "queued"
    /\ jobs' = IF jid \in DOMAIN jobs
               THEN [jobs EXCEPT ![jid] = MarkedRunning(@)]
               ELSE jobs
    /\ submitting' = [j \in DOMAIN submitting \ {jid} |-> submitting[j]]
    /\ UNCHANGED <<nextJid, queue, worker, executed>>
    /\ UNCHANGED now
    /\ UNCHANGED predVars

\* a free worker thread takes the next call off the executor's queue
execute_start(w) ==
    /\ worker[w].pc = "idle"
    /\ queue # <<>>
    /\ worker' = [worker EXCEPT ![w] = [pc |-> "task", jid |-> Head(queue)]]
    /\ queue' = Tail(queue)
    /\ UNCHANGED <<jobs, nextJid, submitting, executed>>
    /\ UNCHANGED now
    /\ UNCHANGED predVars

\* the fields _execute_job writes when the task returned
Completed(job, result) ==
    [job EXCEPT !.status = "completed", !.completed_at = now,
                !.progress = 100, !.result = sanitize_result(result)]

\* the fields _execute_job writes when the task raised
Failed(job, message) ==
    [job EXCEPT !.status = "failed", !.completed_at = now, !.error = message]

\* _execute_job, lines 197-210: the task returned
execute_return(w, result) ==
    /\ worker[w].pc = "task"
    /\ LET jid == worker[w].jid
       IN  /\ jobs' = IF jid \in DOMAIN jobs
                      THEN [jobs EXCEPT ![jid] = Completed(@, result)]
                      ELSE jobs
           /\ executed' = executed \cup {jid}
    /\ worker' = [worker EXCEPT ![w] = IdleWorker]
    /\ UNCHANGED <<nextJid, submitting, queue>>
    /\ UNCHANGED now
    /\ UNCHANGED predVars

\* _execute_job, lines 212-220: the task raised; error = str(e)
execute_raise(w, message) ==
    /\ worker[w].pc = "task"
    /\ LET jid == worker[w].jid
       IN  /\ jobs' = IF jid \in DOMAIN jobs
                      THEN [jobs EXCEPT ![jid] = Failed(@, message)]
                      ELSE jobs
           /\ executed' = executed \cup {jid}
    /\ worker' = [worker EXCEPT ![w] = IdleWorker]
    /\ UNCHANGED <<nextJid, submitting, queue>>
    /\ UNCHANGED now
    /\ UNCHANGED predVars

\* max(0.0, min(100.0, progress))
Clamp(progress) == Max(0, Min(100, progress))

update_progress(jid, progress) ==
    /\ jobs' = IF jid \in DOMAIN jobs
               THEN [jobs EXCEPT ![jid].progress = Clamp(progress)]
               ELSE jobs
    /\ UNCHANGED <<nextJid, submitting, queue, worker, executed>>
    /\ UNCHANGED now
    /\ UNCHANGED predVars

\* JobManager declares submit_job, get_job, update_progress and
\* cleanup_old_jobs: a cancellation request has no method to call, and
\* reaches neither the job table nor the task
cancel_job(jid) ==
    /\ ret' = Ret("cancel_job", 0, "AttributeError", "NoSuchMethod", jid)
    /\ UNCHANGED <<now, predictor, sessions, store, dirs, nextSid, prop, seeds>>
    /\ UNCHANGED jobVars

\* job.status in [JobStatus.COMPLETED, JobStatus.FAILED]
Terminal(job) == job.status \in {"completed", "failed"}

\* a sweep that also takes the jobs exactly max_age old
OldJobsAtAge(max_age) ==
    {j \in DOMAIN jobs :
        /\ jobs[j].status \in {"completed", "failed"}
        /\ jobs[j].completed_at # NoTime
        /\ now - jobs[j].completed_at >= max_age}

\* cleanup_old_jobs: jobs_to_remove
OldJobs(max_age) ==
    {j \in DOMAIN jobs :
        /\ Terminal(jobs[j])
        /\ jobs[j].completed_at # NoTime
        /\ now - jobs[j].completed_at > max_age}

cleanup_old_jobs(max_age) ==
    /\ jobs' = [j \in DOMAIN jobs \ OldJobs(max_age) |-> jobs[j]]
    /\ UNCHANGED <<nextJid, submitting, queue, worker, executed>>
    /\ UNCHANGED now
    /\ UNCHANGED predVars

\* cleanup_old_jobs as its caller sees it: the sweep and the count returned
cleanup_old_jobs_returning(max_age) ==
    /\ jobs' = [j \in DOMAIN jobs \ OldJobs(max_age) |-> jobs[j]]
    /\ ret' = Ret("cleanup_old_jobs", 0, "ok", "", Cardinality(OldJobs(max_age)))
    /\ UNCHANGED <<nextJid, submitting, queue, worker, executed>>
    /\ UNCHANGED <<now, predictor, sessions, store, dirs, nextSid, prop, seeds>>

JobIds == 1 .. MaxJobs

TaskResults ==
    {[kind |-> "dict", v |-> 0,
      d |-> [session_id |-> 1, total_frames |-> 2, frames |-> 2]],
     [kind |-> "value", v |-> 7, d |-> <<>>]}

TaskErrors == {"Session not found: 1", ""}

ProgressInputs == {-5, 50, 150}

JobSubmit == submit_insert
JobEnqueue == \E jid \in JobIds : submit_enqueue(jid)
JobMarkRunning == \E jid \in JobIds : submit_mark_running(jid)
JobStart == \E w \in 1 .. max_workers : execute_start(w)
JobReturn == \E w \in 1 .. max_workers, r \in TaskResults : execute_return(w, r)
JobRaise == \E w \in 1 .. max_workers, e \in TaskErrors : execute_raise(w, e)
JobProgress == \E jid \in JobIds, p \in ProgressInputs : update_progress(jid, p)
JobSweep == cleanup_old_jobs(JobRetention)

NextJobs ==
    \/ JobSubmit
    \/ JobEnqueue
    \/ JobMarkRunning
    \/ JobStart
    \/ JobReturn
    \/ JobRaise
    \/ JobProgress
    \/ JobSweep
    \/ Tick

SpecJobs == Init /\ [][NextJobs]_vars

\* C5: once a job's status is completed or failed, none of its fields
\* (status, progress, started_at, completed_at, result, error) changes again
\* while the record exists, whatever the interleaving of submit_job's steps,
\* _execute_job and update_progress.
C5_TerminalFrozen ==
    [][\A j \in DOMAIN jobs :
          (Terminal(jobs[j]) /\ j \in DOMAIN jobs') => jobs'[j] = jobs[j]]_vars

\* C6: a submitted job whose task has returned or raised, and whose
\* submit_job call has returned, has a terminal status: completed with
\* progress 100 and a result without frames, or failed with the error
\* message; it never goes back to a non-terminal status.
C6_ExecutedIsTerminal ==
    \A j \in (executed \cap DOMAIN jobs) \ DOMAIN submitting :
        /\ Terminal(jobs[j])
        /\ jobs[j].status = "completed" =>
              /\ jobs[j].progress = 100
              /\ jobs[j].result.kind = "dict" =>
                    "frames" \notin DOMAIN jobs[j].result.d
        /\ jobs[j].status = "failed" => jobs[j].error \in TaskErrors

\* the job's task is being executed by a worker thread
Executing(j) == \E w \in 1 .. max_workers : worker[w].pc = "task" /\ worker[w].jid = j

\* C23: a job is reported as running only while its task is executing; a
\* job that waits in the executor's queue for a free worker is reported as
\* pending.
C23_RunningOnlyWhileExecuting ==
    \A j \in DOMAIN jobs : jobs[j].status = "running" => Executing(j)

\* C24: every job whose status is completed has progress 100, also after
\* update_progress calls for that job.
C24_CompletedAtHundred ==
    \A j \in DOMAIN jobs : jobs[j].status = "completed" => jobs[j].progress = 100

\* C25: every job whose status is failed has a non-empty error message,
\* whatever exception its task raised.
C25_FailedHasError ==
    \A j \in DOMAIN jobs :
        jobs[j].status = "failed" => jobs[j].error \notin {NoError, ""}

\* C26: for every job, a started_at that is set is not before created_at,
\* and a completed_at that is set comes with a started_at that is set and
\* is not before it.
C26_TimestampsOrdered ==
    \A j \in DOMAIN jobs :
        /\ jobs[j].started_at # NoTime =>
              jobs[j].started_at >= jobs[j].created_at
        /\ jobs[j].completed_at # NoTime =>
              /\ jobs[j].started_at # NoTime
              /\ jobs[j].completed_at >= jobs[j].started_at

---------------------------------------------------------------------------
(* One propagation job: the session is prepared, propagate_masks is        *)
(* submitted as the task of a job, a worker runs it frame by frame and     *)
(* _execute_job files what it returned or raised                           *)

\* the calls the task makes
TaskOps == {"propagate_start", "propagate_frame", "propagate_masks"}

\* a worker is inside task_func(**params)
InTask == \E w \in 1 .. max_workers : worker[w].pc = "task"

\* what propagate_masks returns: session_id, total_frames and, per frame,
\* the masks written for that frame
PropResult(sid) ==
    [kind |-> "dict", v |-> 0,
     d |-> [session_id |-> sid,
            total_frames |-> store[sid].total_frames,
            frames |-> [f \in 0 .. store[sid].total_frames - 1 |->
                           FrameMasks(sid, f)]]]

\* str(e) of the exception the task raised
ErrorMessage(r) == r.why

PjOpen == nextSid = 1 /\ nextJid = 1 /\ create_session(ObjVideo)
PjLoad == nextJid = 1 /\ initialize
PjAdd == nextJid = 1 /\ CallAdd(0)
PjSubmit == nextJid = 1 /\ submit_insert
PjTaskCall == InTask /\ ret.op \notin TaskOps /\ propagate_start(1)
PjStream == \E outcome \in {"ok", "raise"} : propagate_frame(outcome)
PjTaskReturn ==
    /\ prop.pc = "idle" /\ ret.op = "propagate_masks" /\ ret.status = "ok"
    /\ \E w \in 1 .. max_workers : execute_return(w, PropResult(ret.sid))
PjTaskRaise ==
    /\ prop.pc = "idle" /\ ret.op = "propagate_masks" /\ ret.status # "ok"
    /\ \E w \in 1 .. max_workers : execute_raise(w, ErrorMessage(ret))
PjCancel == \E w \in 1 .. max_workers :
    worker[w].pc = "task" /\ Streaming /\ cancel_job(worker[w].jid)
PjGetMasks ==
    ~InTask /\ executed # {} /\ \E f \in EditFrames : get_frame_masks(1, f)

NextPropJob ==
    \/ PjOpen
    \/ PjLoad
    \/ PjAdd
    \/ PjSubmit
    \/ JobEnqueue
    \/ JobMarkRunning
    \/ JobStart
    \/ PjTaskCall
    \/ PjStream
    \/ simulate_propagation_frame
    \/ propagate_return
    \/ PjTaskReturn
    \/ PjTaskRaise
    \/ PjCancel
    \/ PjGetMasks

SpecPropJob == Init /\ [][NextPropJob]_vars

\* C27: the result kept in a job's record holds no per-frame masks: of a
\* propagation result only session_id and total_frames are kept, and the
\* masks of every frame stay in the session, where GetFrameMasks reads them.
C27_ResultWithoutMasks ==
    \A j \in DOMAIN jobs :
        jobs[j].result # NoResult =>
            /\ jobs[j].result.kind = "dict"
            /\ DOMAIN jobs[j].result.d = {"session_id", "total_frames"}
            /\ jobs[j].result.d.session_id = 1
            /\ jobs[j].result.d.total_frames = store[1].total_frames
            /\ \A f \in 0 .. store[1].total_frames - 1 :
                  DOMAIN FrameMasks(1, f) = DOMAIN store[1].objects

\* a propagation job completed, and GetFrameMasks then read the masks of a
\* frame the propagation wrote
C27_Witness ==
    /\ \E j \in DOMAIN jobs :
          jobs[j].status = "completed" /\ jobs[j].result # NoResult
    /\ ret.op = "get_frame_masks" /\ ret.status = "ok"
    /\ DOMAIN ret.mask # {}
    /\ \A o \in DOMAIN store[1].objects :
          NumFrames - 1 \in DOMAIN store[1].objects[o].masks

\* C28: a propagation job whose task raised because the Segmenter failed
\* in the middle of the stream, once its task has ended and submit_job has
\* returned, has status failed, the exception's message as its error and no
\* result; the masks of the frames streamed before the failure are still
\* stored.
C28_FailedAfterRaise ==
    (ret.op = "propagate_masks" /\ ret.status = "Exception") =>
        \A j \in (executed \cap DOMAIN jobs) \ DOMAIN submitting :
            /\ jobs[j].status = "failed"
            /\ jobs[j].error = ErrorMessage(ret)
            /\ jobs[j].result = NoResult
            /\ \A f \in 0 .. ret.n - 1 :
                  DOMAIN FrameMasks(1, f) = DOMAIN store[1].objects

\* C29: after a cancellation request for the running propagation job, the
\* next step of the propagation loop leaves the loop without writing
\* another frame, and the task fails with a Cancelled error.
C29_CancelObserved ==
    [][(ret.op = "cancel_job" /\ Streaming /\ prop' # prop) =>
          /\ prop'.pc = "idle"
          /\ ret'.op = "propagate_masks"
          /\ ret'.why = "Cancelled"
          /\ store' = store]_vars

---------------------------------------------------------------------------
(* Job reaping: jobs are submitted, run and finish while the clock         *)
(* advances and the sweep runs                                             *)

ReapResults == {[kind |-> "value", v |-> 7, d |-> <<>>]}
ReapErrors == {"Session not found: 1"}

ReapReturn == \E w \in 1 .. max_workers, r \in ReapResults : execute_return(w, r)
ReapRaise == \E w \in 1 .. max_workers, e \in ReapErrors : execute_raise(w, e)
ReapSweep == cleanup_old_jobs_returning(JobRetention)

NextReap ==
    \/ JobSubmit
    \/ JobEnqueue
    \/ JobMarkRunning
    \/ JobStart
    \/ ReapReturn
    \/ ReapRaise
    \/ ReapSweep
    \/ Tick

SpecReap == Init /\ [][NextReap]_vars

\* C30: the job sweep removes exactly the jobs that are completed or failed
\* and whose completed_at is more than the retention window ago, leaves
\* every other job as it was and returns the number removed; no other step
\* removes a job; and a worker never runs a job that is no longer in the
\* table, so its finishing changes no other job.
C30_SweepRemovesOldTerminal ==
    [][/\ (nextJid' = nextJid
              /\ (ret' # ret \/ DOMAIN jobs' # DOMAIN jobs)) =>
             LET old == {j \in DOMAIN jobs :
                           /\ jobs[j].status \in {"completed", "failed"}
                           /\ jobs[j].completed_at # NoTime
                           /\ now - jobs[j].completed_at > JobRetention}
             IN  /\ DOMAIN jobs' = DOMAIN jobs \ old
                 /\ \A j \in DOMAIN jobs' : jobs'[j] = jobs[j]
                 /\ ret'.op = "cleanup_old_jobs"
                 /\ ret'.n = Cardinality(old)
       /\ \A j \in DOMAIN jobs :
             (\/ jobs[j].status \in {"pending", "running"}
              \/ jobs[j].completed_at = NoTime
              \/ now - jobs[j].completed_at <= JobRetention) =>
                 j \in DOMAIN jobs'
       /\ \A w \in 1 .. max_workers :
             /\ worker[w].pc = "task" => worker[w].jid \in DOMAIN jobs
             /\ (worker[w].pc = "task" /\ worker'[w].pc = "idle") =>
                   \A j \in DOMAIN jobs \ {worker[w].jid} :
                       j \in DOMAIN jobs' /\ jobs'[j] = jobs[j]]_vars

\* a sweep removed an old finished job and left another job in the table
C30_Witness ==
    /\ ret.op = "cleanup_old_jobs" /\ ret.n >= 1
    /\ DOMAIN jobs # {}
    /\ Cardinality(DOMAIN jobs) < nextJid - 1

---------------------------------------------------------------------------
(* One session propagated more than once.  The clock tells the phases      *)
(* apart: at time 0 the session is set up, edited and propagated; at time  *)
(* 1 it is only read and propagated again; from time 2 on objects may be   *)
(* added before it is propagated again.                                    *)

\* a deterministic Segmenter: what propagate_in_video streams for an object
\* on a frame is a function of the state it was given, the conditioning
\* output on that frame or else the one on the nearest conditioned frame
DetMask(st, o, f) ==
    LET on == {k[2] : k \in {x \in DOMAIN st.cond : x[1] = o}}
        nearest == CHOOSE g \in on :
                      \A h \in on :
                          \/ Abs(g - f) < Abs(h - f)
                          \/ Abs(g - f) = Abs(h - f) /\ g <= h
    IN  IF on = {} THEN ZeroMask ELSE st.cond[<<o, nearest>>]

LastPhase == 2

TwOpen == now = 0 /\ nextSid = 1 /\ create_session(ObjVideo)
TwLoad == now = 0 /\ initialize
TwAdd ==
    /\ now \in {0, LastPhase} /\ prop.pc = "idle"
    /\ \E f \in EditFrames, oid \in ObjectIds, outcome \in CallOutcomes :
         \E m \in MasksFor(1, outcome) :
           add_object(1, f, oid, CallPoints, CallLabels, outcome, m)
TwRefine ==
    /\ now = 0 /\ prop.pc = "idle"
    /\ \E f \in EditFrames, oid \in ObjectIds, outcome \in CallOutcomes :
         \E m \in MasksFor(1, outcome) :
           /\ (1 \in sessions /\ oid \in DOMAIN store[1].objects)
                 => Len(store[1].objects[oid].prompts) < MaxPrompts
           /\ refine_mask(1, f, oid, CallPoints, <<0>>, outcome, m)
TwOverride ==
    /\ now = 0 /\ prop.pc = "idle"
    /\ \E f \in EditFrames, oid \in ObjectIds, m \in OverrideInputs,
          outcome \in CallOutcomes :
           update_mask(1, f, oid, m, outcome)
TwGetMasks ==
    /\ now >= 1 /\ prop.pc = "idle"
    /\ ret.op # "get_frame_masks"
    /\ \E f \in EditFrames : get_frame_masks(1, f)
TwPropagate == propagate_start(1)
TwStream ==
    /\ propagate_frame("ok")
    /\ \A o \in DOMAIN store[prop.sid].objects
                \cap store[prop.sid].inference_state.obj_ids :
          store'[prop.sid].objects[o].masks[prop.idx] =
              DetMask(store[prop.sid].inference_state, o, prop.idx)
\* the first propagation has returned before the clock leaves time 0
TwTick ==
    /\ prop.pc = "idle"
    /\ now < LastPhase
    /\ now = 0 => (ret.op = "propagate_masks" /\ ret.status = "ok")
    /\ Tick

NextTwice ==
    \/ TwOpen
    \/ TwLoad
    \/ TwAdd
    \/ TwRefine
    \/ TwOverride
    \/ TwGetMasks
    \/ TwPropagate
    \/ TwStream
    \/ simulate_propagation_frame
    \/ propagate_return
    \/ TwTick

SpecTwice == Init /\ [][NextTwice]_vars

\* the step stores no mask, replaces none and drops none
MasksKept ==
    \A o \in DOMAIN store[prop.sid].objects :
        store'[prop.sid].objects[o].masks = store[prop.sid].objects[o].masks

C33_NothingToPropagate ==
    [][(/\ now' = now /\ prop.pc = "idle"
        /\ ret'.op \in {"propagate_start", "propagate_masks"}
        /\ ret'.sid \in sessions
        /\ store[ret'.sid].objects = <<>>) =>
          /\ ret'.op = "propagate_masks"
          /\ ret'.status = "ValueError" /\ ret'.why = "NoObjects"
          /\ prop' = prop
          /\ sessions' = sessions
          /\ store'[ret'.sid].objects = store[ret'.sid].objects
          /\ store'[ret'.sid].inference_state =
                 store[ret'.sid].inference_state]_vars

\* a propagation was refused on an open session of the loaded model that
\* has no object
C33_Witness ==
    /\ ret.op = "propagate_masks" /\ ret.why = "NoObjects"
    /\ ret.sid \in sessions
    /\ store[ret.sid].objects = <<>>
    /\ store[ret.sid].inference_state.ready
    /\ prop.pc = "idle"

---------------------------------------------------------------------------
(* Concurrent Opens.  SAM2VideoPredictor holds no lock: create_session     *)
(* tests the table's size at its start and inserts at its end, and         *)
(* another call may run in between.                                        *)

\* create_session up to the insertion (lines 308-341): the limit test with
\* its sweep, the id, the frames, the scratch directory, the VideoSession
\* and init_state.  The VideoSession exists but is not in the table yet.
create_session_admit(v) ==
    /\ nextSid <= MaxOpens
    /\ LET atLimit == AtLimit(Cardinality(sessions))
           cleaned == SweptOnOpen
           ss1 == sessions \ cleaned
           st1 == StoreAfterClose(cleaned)
           ds1 == DirsAfterClose(cleaned)
           sid == nextSid
       IN
       /\ sessions' = ss1
       /\ IF atLimit /\ AtLimit(Cardinality(ss1))
           THEN /\ store' = st1 /\ dirs' = ds1
                /\ ret' = RetOpen(0, "RuntimeError", "MaxSessions",
                                  max_concurrent_sessions, cleaned)
                /\ UNCHANGED nextSid
           ELSE IF ~v.readable
           THEN /\ store' = st1 /\ dirs' = ds1
                /\ nextSid' = nextSid + 1
                /\ ret' = RetOpen(0, "ValueError", "VideoUnreadable", 0, cleaned)
           ELSE IF predictor /\ v.init_fails
           THEN /\ store' = st1
                /\ dirs' = ds1 \cup {sid}
                /\ nextSid' = nextSid + 1
                /\ ret' = RetOpen(0, "Exception", "SegmenterFailed", 0, cleaned)
           ELSE /\ store' = (sid :> VideoSession(sid, LoadedFrames(v.nframes),
                                 IF predictor THEN init_state ELSE NoState))
                            @@ st1
                /\ dirs' = ds1 \cup {sid}
                /\ nextSid' = nextSid + 1
                /\ ret' = [RetOpen(sid, "ok", "", LoadedFrames(v.nframes), cleaned)
                              EXCEPT !.op = "create_session_admit"]
       /\ seeds' = SeedsAfterClose(cleaned)
    /\ UNCHANGED <<now, predictor, prop>>
    /\ UNCHANGED jobVars

\* the VideoSessions built by an Open that has not inserted yet
Admitted == DOMAIN store \ (sessions \cup Referenced)

\* self.sessions[session_id] = session (line 343), and the return
create_session_insert(sid) ==
    /\ sid \in Admitted
    /\ sessions' = sessions \cup {sid}
    /\ ret' = RetOpen(sid, "ok", "", store[sid].total_frames, {})
    /\ UNCHANGED <<now, predictor, store, dirs, nextSid, prop, seeds>>
    /\ UNCHANGED jobVars

RaceVideos ==
    {[readable |-> TRUE, nframes |-> 2, init_fails |-> FALSE],
     [readable |-> FALSE, nframes |-> 0, init_fails |-> FALSE]}

RaceAdmit == \E v \in RaceVideos : create_session_admit(v)
RaceInsert == \E sid \in SessionIds : create_session_insert(sid)
RaceClose == \E sid \in SessionIds : close_session(sid)

NextRace ==
    \/ RaceAdmit
    \/ RaceInsert
    \/ RaceClose
    \/ cleanup_expired_sessions
    \/ Tick

SpecRace == Init /\ [][NextRace]_vars

\* C34: an Open's capacity check and its insertion are one atomic unit, so
\* whatever Opens, Closes and sweeps run concurrently, an Open that inserts
\* its session leaves the table within max_concurrent_sessions: of two
\* concurrent Opens with one free slot at most one is admitted.
C34_OpenChecksAndInsertsAtomically ==
    [][(now' = now /\ ret'.op = "create_session" /\ ret'.status = "ok") =>
          Cardinality(sessions') <= max_concurrent_sessions]_vars

---------------------------------------------------------------------------
(* The service (main.py).  Every request handler is a coroutine that calls *)
(* the predictor without awaiting, so the event loop runs one handler from *)
(* its start to its return before it starts the next.                      *)

SvSessions == 1 .. max_concurrent_sessions

\* the event loop is not inside the /propagate handler
LoopFree == prop.pc = "idle"

SvOutcomes(sid) == OutcomesFor(sid) \cap {"ok", "raise"}
SvMasks(sid, outcome) == MasksFor(sid, outcome) \cap {NoMask, Row(1, 0)}

\* POST /add-object
SvAdd(sid) ==
    \E outcome \in SvOutcomes(sid) :
      \E m \in SvMasks(sid, outcome) :
        add_object(sid, 0, 1, CallPoints, CallLabels, outcome, m)
\* POST /refine
SvRefine(sid) ==
    \E outcome \in SvOutcomes(sid) :
      \E m \in SvMasks(sid, outcome) :
        /\ (sid \in sessions /\ 1 \in DOMAIN store[sid].objects)
              => Len(store[sid].objects[1].prompts) < MaxPrompts
        /\ refine_mask(sid, 0, 1, CallPoints, <<0>>, outcome, m)
\* OverrideMask
SvOverride(sid) ==
    \E outcome \in SvOutcomes(sid) :
        update_mask(sid, 0, 1,
                    [ndim |-> 2, dtype |-> "uint8", px |-> Row(255, 0)], outcome)
\* POST /frame-masks
SvGetMasks(sid) == \E f \in EditFrames : get_frame_masks(sid, f)

\* an interactive request on session sid is handled
Interactive(sid) ==
    /\ LoopFree
    /\ (SvAdd(sid) \/ SvRefine(sid) \/ SvOverride(sid) \/ SvGetMasks(sid))

SvOpen ==
    LoopFree /\ nextSid <= max_concurrent_sessions /\ create_session(ObjVideo)
SvLoad == LoopFree /\ initialize
SvAdds == \E sid \in SvSessions : LoopFree /\ SvAdd(sid)
SvRefines == \E sid \in SvSessions : LoopFree /\ SvRefine(sid)
SvOverrides == \E sid \in SvSessions : LoopFree /\ SvOverride(sid)
SvGets == \E sid \in SvSessions : LoopFree /\ SvGetMasks(sid)
\* POST /propagate: the handler runs propagate_masks to its end
SvPropagate == \E sid \in SvSessions : propagate_start(sid)
SvStream == \E outcome \in {"ok", "raise"} : propagate_frame(outcome)

NextService ==
    \/ SvOpen
    \/ SvLoad
    \/ SvAdds
    \/ SvRefines
    \/ SvOverrides
    \/ SvGets
    \/ SvPropagate
    \/ SvStream
    \/ simulate_propagation_frame
    \/ propagate_return

SpecService == Init /\ [][NextService]_vars

\* C35: while a propagation on one session is streaming, an interactive
\* call (AddObject, Refine, OverrideMask, GetFrameMasks) on any other open
\* session can be handled at once: it need not wait for the propagation.
C35_OtherSessionNeedNotWait ==
    \A b \in sessions :
        (Streaming /\ prop.sid # b) => ENABLED Interactive(b)

\* the body of the /propagate response (main.py 373-390): per frame of the
\* result, the encoded mask of every object
PropagateResponse(sid) ==
    LET result == PropResult(sid).d
    IN  [session_id |-> result.session_id,
         total_frames |-> result.total_frames,
         frames |-> [f \in DOMAIN result.frames |->
                       [o \in DOMAIN result.frames[f] |->
                           encode_mask(Uint8(result.frames[f][o]))]]]

\* C36: the start-propagation request hands the propagation to the job
\* manager and answers with the job's id without waiting for the stream:
\* when it answers, a job is in the job table and no frame has been
\* streamed yet, and its response carries no mask (the masks are read from
\* the session with GetFrameMasks).
C36_PropagationIsAJob ==
    [][(Streaming /\ prop'.pc = "idle" /\ prop.sid \in sessions
          /\ ret'.op = "propagate_masks" /\ ret'.status = "ok") =>
          /\ prop.idx = 0
          /\ DOMAIN jobs' # {}
          /\ \A f \in DOMAIN PropagateResponse(prop.sid).frames :
                PropagateResponse(prop.sid).frames[f] = <<>>]_vars

---------------------------------------------------------------------------
(* Opening videos whose length is around max_video_frames *)

LoadVideos ==
    {[readable |-> TRUE, nframes |-> n, init_fails |-> FALSE] :
        n \in {0, 2, max_video_frames - 1, max_video_frames,
               max_video_frames + 1}}

LoadOpen == \E v \in LoadVideos : create_session(v)
LoadClose == \E sid \in SessionIds : close_session(sid)

NextLoad ==
    \/ LoadOpen
    \/ LoadClose
    \/ initialize

SpecLoad == Init /\ [][NextLoad]_vars

\* C38: an Open of a video with n decodable frames yields a session whose
\* total_frames is min(n, max_video_frames): a video of exactly
\* max_video_frames frames is loaded whole, one of max_video_frames + 1
\* loses its last frame; and the frame files written to frames_dir are
\* exactly total_frames files numbered 0 .. total_frames - 1.
C38_TotalFramesIsMin ==
    [][\A v \in LoadVideos :
          (create_session(v) /\ ret'.status = "ok") =>
              LET s == store'[ret'.sid]
                  files == ExtractedFiles(LoadedFrames(v.nframes))
              IN  /\ s.total_frames = Min(v.nframes, max_video_frames)
                  /\ ret'.n = s.total_frames
                  /\ s.frames_dir \in dirs'
                  /\ Cardinality(files) = s.total_frames
                  /\ files = 0 .. s.total_frames - 1]_vars

\* two sessions of max_video_frames frames are open, each from a video of
\* max_video_frames frames or of one more
C38_Witness ==
    /\ ret.op = "create_session" /\ ret.status = "ok"
    /\ ret.n = max_video_frames
    /\ Cardinality({s \in sessions :
                       store[s].total_frames = max_video_frames}) = 2

\* C39: in every reachable state the scratch directories that exist are
\* exactly the frames_dir of the sessions in the table: an Open that fails
\* after the frames were written leaves no directory behind, and no session
\* of the table lacks its frames_dir.
C39_DirsAreThoseOfSessions ==
    dirs = {store[s].frames_dir : s \in sessions}

\* C40: a Refine whose Segmenter call fails leaves the object as it was:
\* its prompt list holds no record of the refinement points, and its masks
\* are those it had before the call.
C40_FailedRefineLeavesObject ==
    [][(ret'.op = "refine_mask" /\ ret'.status = "Exception"
          /\ ret'.sid \in sessions) =>
          store'[ret'.sid].objects = store[ret'.sid].objects]_vars

====
